---- MODULE Spec2Model ----
(***************************************************************************)
(* Flow-cytometry staining matrix designer (src/Flowjo_designer.py).       *)
(*                                                                         *)
(* The program is a Streamlit script: every user action reruns the script, *)
(* which renders exactly one page.  The stored state is st.session_state   *)
(* (antibodies, tubes, volumes, and planner for the groups and replicates  *)
(* of the experiment planner); what a run computes and shows is the        *)
(* variable page, which holds the output of the run before.  The variable  *)
(* history is a history variable: it keeps the first randomized plan that  *)
(* was generated, to compare a later generation with it.                   *)
(*                                                                         *)
(* Text of the program that is not ASCII is written with an ASCII          *)
(* stand-in; the original is given in the comment of its definition.       *)
(*                                                                         *)
(* Numbers: concentration is in ug/mL (whole numbers), recommended_use in  *)
(* hundredths of a ug, cell_count in tenths of 10^6 cells, volumes in uL.  *)
(* A dose is the exact rational num/den uL; what the program prints with   *)
(* the format ".2f" is a whole number of hundredths of a uL.               *)
(***************************************************************************)
EXTENDS Integers, Sequences, FiniteSets, TLC

VARIABLES antibodies, tubes, volumes, planner, page, history

vars == <<antibodies, tubes, volumes, planner, page, history>>

-----------------------------------------------------------------------------
(* Bounds of the model.                                                    *)

\* The largest number of entries the catalog holds in the model.
MaxAntibodies == 2

\* The largest number of antibodies ticked in the form "create tube".
MaxTicked == 2

-----------------------------------------------------------------------------
(* class AntibodyType(Enum)                                                *)

SURFACE == "SURFACE"
INTRACELLULAR == "INTRACELLULAR"
VIABILITY == "VIABILITY"
FC_BLOCK == "FC_BLOCK"
OTHER_TYPE == "OTHER"                    \* AntibodyType.OTHER

AntibodyType == {SURFACE, INTRACELLULAR, VIABILITY, FC_BLOCK, OTHER_TYPE}

-----------------------------------------------------------------------------
(* The labels of the staining matrix.                                      *)

\* The four descriptive columns of a matrix row.
KEY_TUBE_NAME == "[tube name]"          \* "管子名称"
KEY_DESCRIPTION == "[description]"      \* "描述"
KEY_FIXATION == "[fixation]"            \* "固定破膜"
KEY_CONTROL_TYPE == "[control type]"    \* "对照类型"

CHECK == "Y"                            \* "✓"
ABSENT == ""                            \* ""
YES == "yes"                            \* "是"
NO == "no"                              \* "否"
EXPERIMENTAL == "experimental tube"     \* "实验管"

-----------------------------------------------------------------------------
(* A Python dict: the sequence of its items [k, v] in insertion order.     *)

DictKeys(d) == [i \in 1..Len(d) |-> d[i].k]

DictHas(d, key) == \E i \in 1..Len(d) : d[i].k = key

DictIdx(d, key) == CHOOSE i \in 1..Len(d) : d[i].k = key

DictGet(d, key) == d[DictIdx(d, key)].v

\* Mutant of the store: the item is appended also when the key is present.
DictSet_AlwaysAppend(d, key, value) == Append(d, [k |-> key, v |-> value])

\* d[key] = value: a key already present keeps its position.
DictSet(d, key, value) ==
    IF DictHas(d, key)
    THEN [d EXCEPT ![DictIdx(d, key)].v = value]
    ELSE Append(d, [k |-> key, v |-> value])

\* del d[key]
DictDel(d, key) == SelectSeq(d, LAMBDA e : e.k # key)

\* x in list
InList(x, list) == \E i \in 1..Len(list) : list[i] = x

-----------------------------------------------------------------------------
(* The inputs of the forms.                                                *)

CD45 == "BB515 Rat Anti-Mouse CD45"
CD45_PE == "PE Rat Anti-Mouse CD45"

\* What the "add antibody" form submits.  The name is free text, so it can be
\* the label of a matrix column (a fixation/permeabilisation reagent entered
\* under the name "固定破膜"); the concentration field accepts 0; two
\* antibodies can be given the same short name; a name can be submitted
\* again with other values.  Every form gives a short name, so that
\* Antibody.__post_init__ derives none.
AntibodyForms ==
    { [name |-> CD45, short_name |-> "CD45", concentration |-> 200,
       recommended_use |-> 25, type |-> SURFACE],
      [name |-> CD45, short_name |-> "CD45", concentration |-> 200,
       recommended_use |-> 25, type |-> OTHER_TYPE],
      [name |-> CD45_PE, short_name |-> "CD45", concentration |-> 300,
       recommended_use |-> 100, type |-> VIABILITY],
      [name |-> KEY_FIXATION, short_name |-> "FixPerm", concentration |-> 200,
       recommended_use |-> 50, type |-> INTRACELLULAR],
      [name |-> KEY_FIXATION, short_name |-> "FixPerm", concentration |-> 0,
       recommended_use |-> 50, type |-> INTRACELLULAR] }

\* What the "create tube" form submits besides the ticked antibodies and the
\* fixation box: the name, the description and the control choice.
TubeForms ==
    { [name |-> "Full_Stain", description |-> "full stain",
       is_control |-> FALSE, control_type |-> ""],
      [name |-> "FMO", description |-> "fluorescence minus one",
       is_control |-> TRUE, control_type |-> "FMO"] }

\* st.session_state.volumes as __init__ sets it.
DefaultVolumes ==
    [per_tube |-> 100, intracellular_per_tube |-> 50, cell_count |-> 10,
     extra_tubes |-> 2]

\* What the four number inputs of the master-mix page hold when it runs.
VolumeInputs ==
    { DefaultVolumes,
      [per_tube |-> 200, intracellular_per_tube |-> 20, cell_count |-> 30,
       extra_tubes |-> 0] }

-----------------------------------------------------------------------------
(* What a page shows.                                                      *)

NoBlock ==
    [present |-> FALSE, tubes |-> <<>>, total_tubes |-> 0, total_volume |-> 0,
     results |-> <<>>, shown |-> FALSE]

NoMix ==
    [surface_tubes |-> <<>>, intracellular_tubes |-> <<>>,
     surface |-> NoBlock, intracellular |-> NoBlock, usage |-> <<>>]

\* The plan table of the planner page, the two inputs it was made with and
\* the total of samples the overview shows.
NoPlan ==
    [table |-> FALSE, rows |-> <<>>, replicates |-> 0, randomize |-> FALSE,
     total_samples |-> 0]

\* No page is on the screen.  json is the text behind the download button of
\* the sidebar, uploaded the file the sidebar read and form the form the
\* antibody page was submitted with, each a sequence of one or of none.
NoPage ==
    [kind |-> "none", status |-> "none", matrix |-> <<>>, mix |-> NoMix,
     plan |-> NoPlan, json |-> <<>>, uploaded |-> <<>>, form |-> <<>>]

-----------------------------------------------------------------------------
(* render_matrix                                                           *)

\* The loop over antibody_names of one row.
RECURSIVE PresenceLoop(_, _, _)
PresenceLoop(row, antibody_names, tube) ==
    IF antibody_names = <<>> THEN row
    ELSE PresenceLoop(
             DictSet(row, Head(antibody_names),
                     IF InList(Head(antibody_names), tube.antibodies)
                     THEN CHECK ELSE ABSENT),
             Tail(antibody_names), tube)

\* One row of matrix_data.
MatrixRow(tube_name, tube, antibody_names) ==
    LET row0 == <<[k |-> KEY_TUBE_NAME, v |-> tube_name],
                  [k |-> KEY_DESCRIPTION, v |-> tube.description]>>
        row1 == PresenceLoop(row0, antibody_names, tube)
        row2 == DictSet(row1, KEY_FIXATION,
                        IF tube.needs_fixation THEN YES ELSE NO)
    IN  DictSet(row2, KEY_CONTROL_TYPE,
                IF tube.is_control THEN tube.control_type ELSE EXPERIMENTAL)

\* matrix_data: one row for each tube, in the order of the tube map.
MatrixData(abs, tbs) ==
    [i \in 1..Len(tbs) |-> MatrixRow(tbs[i].k, tbs[i].v, DictKeys(abs))]

\* Mutant of the guard: it asks for both collections to be empty.
MatrixNotConfigured_BothEmpty(abs, tbs) == tbs = <<>> /\ abs = <<>>

\* The guard of render_matrix: the page warns and returns.
MatrixNotConfigured(abs, tbs) == tbs = <<>> \/ abs = <<>>

RenderMatrix ==
    /\ page' = IF MatrixNotConfigured(antibodies, tubes)
               THEN [NoPage EXCEPT !.kind = "matrix", !.status = "warning"]
               ELSE [NoPage EXCEPT !.kind = "matrix", !.status = "ok",
                                   !.matrix = MatrixData(antibodies, tubes)]
    /\ UNCHANGED <<antibodies, tubes, volumes, planner, history>>

-----------------------------------------------------------------------------
(* render_mastermix_calculator                                             *)

\* The types a surface mix doses, and the type an intracellular mix doses.
SurfaceTypes == {SURFACE, VIABILITY, FC_BLOCK}
IntracellularTypes == {INTRACELLULAR}

\* Mutant of the partition: "if tube.antibodies" in place of "elif".
SurfaceTubes_IfNotElif(tbs) ==
    DictKeys(SelectSeq(tbs, LAMBDA e : e.v.antibodies # <<>>))

\* surface_tubes: the tubes without fixation that hold an antibody.
SurfaceTubes(tbs) ==
    DictKeys(SelectSeq(tbs, LAMBDA e :
        ~e.v.needs_fixation /\ e.v.antibodies # <<>>))

\* intracellular_tubes: the tubes with fixation.
IntracellularTubes(tbs) ==
    DictKeys(SelectSeq(tbs, LAMBDA e : e.v.needs_fixation))

\* Mutant of the tube total: the extra tubes are left out.
TotalTubes_NoExtra(tube_names, extra_tubes) == Len(tube_names)

\* len(tubes of the group) + extra_tubes
TotalTubes(tube_names, extra_tubes) == Len(tube_names) + extra_tubes

\* per-tube volume * total tubes
TotalVolume(per_tube_volume, total_tubes) == per_tube_volume * total_tubes

\* (ab.recommended_use * cell_count) / ab.concentration, as num/den uL:
\* recommended_use is in hundredths and cell_count in tenths.
PerTubeVol(ab, cell_count) ==
    [num |-> ab.recommended_use * cell_count, den |-> 1000 * ab.concentration]

\* per_tube_vol * total tubes
TotalVol(per_tube_vol, total_tubes) ==
    [num |-> per_tube_vol.num * total_tubes, den |-> per_tube_vol.den]

\* The decimal ties k/200 uL (k odd) that the double holds above the tie.
\* Of the ties the inputs of the model reach, 0.005 is held above it and
\* prints "0.01"; 0.015 is held below it and prints "0.01".
TiesHeldAbove == {1}

\* f"{x:.2f}": x = num/den (den > 0) in hundredths.  The format rounds the
\* double to the nearest hundredth; a decimal tie goes the way the double
\* lies.
Format2f(x) ==
    LET n == 100 * x.num
        q == n \div x.den
        r == n % x.den
    IN  IF 2 * r > x.den \/ (2 * r = x.den /\ (2 * q + 1) \in TiesHeldAbove)
        THEN q + 1 ELSE q

\* The antibodies one tube of a group contributes: the names of its list
\* that are in the catalog with a type of the mix, in the order of the list.
RefsOfTube(tube, abs, types) ==
    LET names == SelectSeq(tube.antibodies, LAMBDA n :
                     DictHas(abs, n) /\ DictGet(abs, n).type \in types)
    IN  [i \in 1..Len(names) |-> DictGet(abs, names[i])]

\* The two nested loops of a mix: tube by tube, antibody by antibody.
RECURSIVE GroupRefs(_, _, _, _)
GroupRefs(tube_names, abs, tbs, types) ==
    IF tube_names = <<>> THEN <<>>
    ELSE RefsOfTube(DictGet(tbs, Head(tube_names)), abs, types)
         \o GroupRefs(Tail(tube_names), abs, tbs, types)

\* The division raises ZeroDivisionError for one of the antibodies.
DivisionByZero(refs) == \E i \in 1..Len(refs) : refs[i].concentration = 0

\* One row appended to the results of a mix.
DoseRow(ab, cell_count, total_tubes) ==
    [antibody |-> ab.short_name,                                \* "抗体"
     concentration |-> ab.concentration,                        \* "浓度"
     per_tube_vol |-> Format2f(PerTubeVol(ab, cell_count)),     \* "每管用量"
     total_vol |->
         Format2f(TotalVol(PerTubeVol(ab, cell_count), total_tubes))]
                                                                \* "总需用量"

\* The key of drop_duplicates(subset=["抗体"]).
DuplicateKey(row) == row.antibody

RECURSIVE DropSeen(_, _)
DropSeen(rows, seen) ==
    IF rows = <<>> THEN <<>>
    ELSE IF DuplicateKey(Head(rows)) \in seen
         THEN DropSeen(Tail(rows), seen)
         ELSE <<Head(rows)>>
              \o DropSeen(Tail(rows), seen \cup {DuplicateKey(Head(rows))})

\* DataFrame.drop_duplicates: the first row of each key is kept.
DropDuplicates(rows) == DropSeen(rows, {})

\* The block of one mix, for a group that is not empty and whose doses are
\* all computed.  The table and the info box (total volume, tubes) are shown
\* only when there is a result.
MixBlock(tube_names, abs, tbs, types, per_tube_volume, cell_count, extra_tubes) ==
    LET total_tubes == TotalTubes(tube_names, extra_tubes)
        refs == GroupRefs(tube_names, abs, tbs, types)
        results == [i \in 1..Len(refs) |->
                       DoseRow(refs[i], cell_count, total_tubes)]
    IN  [present |-> TRUE,
         tubes |-> tube_names,
         total_tubes |-> total_tubes,
         total_volume |-> TotalVolume(per_tube_volume, total_tubes),
         results |-> DropDuplicates(results),
         shown |-> results # <<>>]

\* usage_count of one antibody: for each tube that lists it, the total tubes
\* of the tube's mix when the type goes with the tube.
RECURSIVE UsageCount(_, _, _, _, _, _)
UsageCount(ab_name, ab, tbs, n_surface, n_intracellular, extra_tubes) ==
    IF tbs = <<>> THEN 0
    ELSE LET tube == Head(tbs).v
             here ==
                 IF ~InList(ab_name, tube.antibodies) THEN 0
                 ELSE IF tube.needs_fixation /\ ab.type = INTRACELLULAR
                      THEN n_intracellular + extra_tubes
                 ELSE IF ~tube.needs_fixation /\ ab.type # INTRACELLULAR
                      THEN n_surface + extra_tubes
                 ELSE 0
         IN  here + UsageCount(ab_name, ab, Tail(tbs), n_surface,
                               n_intracellular, extra_tubes)

\* The antibodies of the catalog with a usage count above 0, with the count.
UsedAntibodies(abs, tbs, extra_tubes) ==
    LET ns == Len(SurfaceTubes(tbs))
        ni == Len(IntracellularTubes(tbs))
        counted == [i \in 1..Len(abs) |->
                       [ab |-> abs[i].v,
                        usage_count |-> UsageCount(abs[i].k, abs[i].v, tbs,
                                                   ns, ni, extra_tubes)]]
    IN  SelectSeq(counted, LAMBDA u : u.usage_count > 0)

\* usage_data: one row for each used antibody.
UsageData(abs, tbs, cell_count, extra_tubes) ==
    LET used == UsedAntibodies(abs, tbs, extra_tubes)
    IN  [i \in 1..Len(used) |->
            [antibody |-> used[i].ab.short_name,
             type |-> used[i].ab.type,
             usage_count |-> used[i].usage_count,
             total_vol |-> TotalVol(PerTubeVol(used[i].ab, cell_count),
                                    used[i].usage_count)]]

\* What the page computes from the catalog, the tubes and the four inputs.
\* An uncaught ZeroDivisionError ends the script: what was shown before it
\* stays, nothing after it is computed.
MasterMix(abs, tbs, v) ==
    LET st == SurfaceTubes(tbs)
        it == IntracellularTubes(tbs)
        s_raises == st # <<>> /\ DivisionByZero(GroupRefs(st, abs, tbs, SurfaceTypes))
        i_raises == it # <<>>
                    /\ DivisionByZero(GroupRefs(it, abs, tbs, IntracellularTypes))
        used == UsedAntibodies(abs, tbs, v.extra_tubes)
        u_raises == \E i \in 1..Len(used) : used[i].ab.concentration = 0
        raised == s_raises \/ i_raises \/ u_raises
    IN  [NoPage EXCEPT
            !.kind = "mastermix",
            !.status = IF raised THEN "ZeroDivisionError" ELSE "ok",
            !.mix = [surface_tubes |-> st,
                     intracellular_tubes |-> it,
                     surface |->
                         IF st = <<>> \/ s_raises THEN NoBlock
                         ELSE MixBlock(st, abs, tbs, SurfaceTypes, v.per_tube,
                                       v.cell_count, v.extra_tubes),
                     intracellular |->
                         IF it = <<>> \/ s_raises \/ i_raises THEN NoBlock
                         ELSE MixBlock(it, abs, tbs, IntracellularTypes,
                                       v.intracellular_per_tube,
                                       v.cell_count, v.extra_tubes),
                     usage |->
                         IF raised THEN <<>>
                         ELSE UsageData(abs, tbs, v.cell_count, v.extra_tubes)]]

\* The page runs with the four number inputs holding input: without tubes it
\* warns and returns; otherwise it stores the inputs and computes the mixes.
RenderMasterMix ==
    \E input \in VolumeInputs :
        /\ IF tubes = <<>>
           THEN /\ page' = [NoPage EXCEPT !.kind = "mastermix",
                                          !.status = "warning"]
                /\ volumes' = volumes
           ELSE /\ volumes' = input
                /\ page' = MasterMix(antibodies, tubes, input)
        /\ UNCHANGED <<antibodies, tubes, planner, history>>

-----------------------------------------------------------------------------
(* render_antibody_management, render_tube_design                          *)

\* The form "add antibody" is submitted with a name.
AddAntibody ==
    \E form \in AntibodyForms :
        /\ DictHas(antibodies, form.name) \/ Len(antibodies) < MaxAntibodies
        /\ antibodies' = DictSet(antibodies, form.name, form)
        /\ page' = NoPage
        /\ UNCHANGED <<tubes, volumes, planner, history>>

\* The delete button of one antibody card.
DeleteAntibody ==
    \E i \in 1..Len(antibodies) :
        /\ antibodies' = DictDel(antibodies, antibodies[i].v.name)
        /\ page' = NoPage
        /\ UNCHANGED <<tubes, volumes, planner, history>>

\* The names ticked in the form, in the order of the catalog.
SelectedAntibodies(abs, ticked) ==
    SelectSeq(DictKeys(abs), LAMBDA name : name \in ticked)

\* The form "create tube" is submitted with a name.
AddTube ==
    \E form \in TubeForms, needs_fixation \in BOOLEAN,
       ticked \in SUBSET {antibodies[i].k : i \in 1..Len(antibodies)} :
        /\ Cardinality(ticked) <= MaxTicked
        /\ tubes' = DictSet(tubes, form.name,
                        [name |-> form.name,
                         description |-> form.description,
                         antibodies |-> SelectedAntibodies(antibodies, ticked),
                         needs_fixation |-> needs_fixation,
                         is_control |-> form.is_control,
                         control_type |-> form.control_type])
        /\ page' = NoPage
        /\ UNCHANGED <<antibodies, volumes, planner, history>>

\* The delete button of one tube card.
DeleteTube ==
    \E i \in 1..Len(tubes) :
        /\ tubes' = DictDel(tubes, tubes[i].v.name)
        /\ page' = NoPage
        /\ UNCHANGED <<antibodies, volumes, planner, history>>

-----------------------------------------------------------------------------
(* render_experiment_planner                                               *)

\* st.session_state.groups and st.session_state.replicates: absent until the
\* button "generate plan" is pressed.
NoPlanner == [generated |-> FALSE, groups |-> <<>>, replicates |-> 0]

\* The text area, as groups_input.split(',') returns it: the empty text, the
\* text "Control, ", the text "Control, Model" and the text "Treatment_1,
\* Treatment_2" (the last two groups of the default text).
GroupTexts ==
    { <<"">>, <<"Control", " ">>, <<"Control", " Model">>,
      <<"Treatment_1", " Treatment_2">> }

\* g.strip()
Strip(piece) ==
    CASE piece = " " -> ""
      [] piece = " Model" -> "Model"
      [] piece = " Treatment_2" -> "Treatment_2"
      [] OTHER -> piece

\* [g.strip() for g in groups_input.split(',') if g.strip()]
ParseGroups(pieces) ==
    SelectSeq([i \in 1..Len(pieces) |-> Strip(pieces[i])], LAMBDA g : g # "")

\* What the number input of the replicates holds (min_value = 1).
ReplicateInputs == {1, 2}

\* group[:3]
First3(group) ==
    CASE group = "Control" -> "Con"
      [] group = "Model" -> "Mod"
      [] group = "Treatment_1" -> "Tre"
      [] group = "Treatment_2" -> "Tre"
      [] OTHER -> group

\* tube_name[:10]: no tube name of the model is longer than 10 characters.
First10(tube_name) == tube_name

\* ab.split('(')[0].strip()
BeforeParen(ab) ==
    CASE ab = "TruStain FcX(TM) (anti-mouse CD16/32) Antibody"
             -> "TruStain FcX(TM)"
      [] OTHER -> ab

\* One row of plan_data.  The sample ID is the triple of its three parts and
\* the antibody column the list of the texts that ", " joins.
PlanRow(group, rep, tube_name, tube, sample_id) ==
    [sample_id |-> <<First3(group), rep, First10(tube_name)>>,  \* "样品ID"
     group |-> group,                                           \* "实验组"
     rep |-> rep,                                               \* "重复"
     tube |-> tube_name,                                        \* "管子类型"
     description |-> tube.description,                          \* "描述"
     antibodies |-> [i \in 1..Len(tube.antibodies) |->
                        BeforeParen(tube.antibodies[i])],       \* "抗体"
     fixation |-> IF tube.needs_fixation THEN YES ELSE NO,      \* "固定破膜"
     control_type |-> IF tube.is_control THEN tube.control_type
                      ELSE EXPERIMENTAL,                        \* "对照类型"
     order |-> sample_id]                                       \* "上机顺序"

\* Mutant of the innermost loop: sample_id starts at 0.
RECURSIVE TubeLoop_FromZero(_, _, _, _)
TubeLoop_FromZero(plan_data, group, rep, tbs) ==
    IF tbs = <<>> THEN plan_data
    ELSE TubeLoop_FromZero(Append(plan_data,
                                  PlanRow(group, rep, Head(tbs).k,
                                          Head(tbs).v, Len(plan_data))),
                           group, rep, Tail(tbs))

\* for tube_name, tube in st.session_state.tubes.items()
RECURSIVE TubeLoop(_, _, _, _)
TubeLoop(plan_data, group, rep, tbs) ==
    IF tbs = <<>> THEN plan_data
    ELSE TubeLoop(Append(plan_data,
                         PlanRow(group, rep, Head(tbs).k, Head(tbs).v,
                                 Len(plan_data) + 1)),
                  group, rep, Tail(tbs))

\* for rep in range(1, replicates + 1)
RECURSIVE RepLoop(_, _, _, _, _)
RepLoop(plan_data, group, rep, replicates, tbs) ==
    IF rep > replicates THEN plan_data
    ELSE RepLoop(TubeLoop(plan_data, group, rep, tbs),
                 group, rep + 1, replicates, tbs)

\* for group in st.session_state.groups
RECURSIVE GroupLoop(_, _, _, _)
GroupLoop(plan_data, groups, replicates, tbs) ==
    IF groups = <<>> THEN plan_data
    ELSE GroupLoop(RepLoop(plan_data, Head(groups), 1, replicates, tbs),
                   Tail(groups), replicates, tbs)

\* Mutant of the plan: range(1, replicates) in place of replicates + 1.
PlanData_ShortRange(tbs, groups, replicates) ==
    GroupLoop(<<>>, groups, replicates - 1, tbs)

\* plan_data
PlanData(tbs, groups, replicates) == GroupLoop(<<>>, groups, replicates, tbs)

\* np.random.seed(42); np.random.permutation(n), counted from 1, for n = 1
\* to 12: the order in which sample(frac=1) takes the rows of a frame of n
\* rows (Mersenne Twister seeded with 42, shuffle from the last index down).
Seed42Orders ==
    << <<1>>,
       <<2, 1>>,
       <<1, 2, 3>>,
       <<2, 4, 1, 3>>,
       <<2, 5, 3, 1, 4>>,
       <<1, 2, 6, 3, 5, 4>>,
       <<1, 2, 6, 3, 5, 4, 7>>,
       <<2, 6, 1, 8, 3, 5, 4, 7>>,
       <<8, 2, 6, 1, 9, 3, 5, 4, 7>>,
       <<9, 2, 6, 1, 8, 3, 10, 5, 4, 7>>,
       <<6, 1, 10, 11, 3, 2, 9, 5, 8, 4, 7>>,
       <<11, 10, 1, 9, 6, 3, 2, 12, 5, 8, 4, 7>> >>

\* Mutant of the sampling: without the line np.random.seed(42) the generator
\* is in the state the run before left it in, and the order is one of two.
SampleOrders_NoSeed(n) ==
    IF n = 0 THEN {<<>>} ELSE {Seed42Orders[n], [k \in 1..n |-> k]}

\* The orders sample(frac=1) can take the rows in, right after
\* np.random.seed(42): there is one.
SampleOrders(n) == IF n = 0 THEN {<<>>} ELSE {Seed42Orders[n]}

\* plan_df.sample(frac=1).reset_index(drop=True)
Sample(rows, order) == [k \in 1..Len(rows) |-> rows[order[k]]]

\* Mutant of the renumbering: the rows keep the numbers they had.
Renumber_Keep(rows) == rows

\* plan_df["上机顺序"] = range(1, len(plan_df) + 1)
Renumber(rows) == [k \in 1..Len(rows) |-> [rows[k] EXCEPT !.order = k]]

\* The group, the replicate and the tube of a row.
RowKey(row) == <<row.group, row.rep, row.tube>>

\* Nothing was generated with randomization yet.  Once set, the history
\* holds what the first randomized plan was generated from and the order of
\* its rows; again tells that a randomized plan was generated after it.
NoHistory ==
    [set |-> FALSE, tube_names |-> <<>>, groups |-> <<>>, replicates |-> 0,
     order |-> <<>>, again |-> FALSE]

\* The page below the inputs, once session_state holds groups.  With no row
\* the frame has no column: the table is shown empty and the selection of the
\* columns of the run-order sheet raises KeyError.
PlannerPage(tbs, groups, replicates, randomize, order) ==
    LET plan_data == PlanData(tbs, groups, replicates)
        plan_df == IF randomize THEN Renumber(Sample(plan_data, order))
                   ELSE plan_data
    IN  [NoPage EXCEPT
            !.kind = "planner",
            !.status = IF plan_df = <<>> THEN "KeyError" ELSE "ok",
            !.plan = [table |-> TRUE, rows |-> plan_df,
                      replicates |-> replicates, randomize |-> randomize,
                      total_samples |->
                          Len(groups) * replicates * Len(tbs)]]

\* The page runs with its inputs: the text of the groups, the replicates, the
\* randomization box, and the button pressed or not.  Without tubes it warns
\* and returns; the button stores the groups and the replicates; the plan is
\* made of the stored groups and the replicates of the input.
RenderPlanner ==
    \E pieces \in GroupTexts, replicates \in ReplicateInputs,
       randomize \in BOOLEAN, pressed \in BOOLEAN :
        /\ IF tubes = <<>>
           THEN /\ page' = [NoPage EXCEPT !.kind = "planner",
                                          !.status = "warning"]
                /\ UNCHANGED <<planner, history>>
           ELSE LET stored == IF pressed
                              THEN [generated |-> TRUE,
                                    groups |-> ParseGroups(pieces),
                                    replicates |-> replicates]
                              ELSE planner
                    n == Len(stored.groups) * replicates * Len(tubes)
                IN  /\ planner' = stored
                    /\ IF ~stored.generated
                       THEN /\ page' = [NoPage EXCEPT !.kind = "planner",
                                                      !.status = "ok"]
                            /\ UNCHANGED history
                       ELSE \E order \in SampleOrders(n) :
                            /\ page' = PlannerPage(tubes, stored.groups,
                                                   replicates, randomize,
                                                   order)
                            /\ history' =
                                   IF ~randomize \/ n = 0 THEN history
                                   ELSE IF history.set
                                   THEN [history EXCEPT !.again = TRUE]
                                   ELSE [set |-> TRUE,
                                         tube_names |-> DictKeys(tubes),
                                         groups |-> stored.groups,
                                         replicates |-> replicates,
                                         order |->
                                             [k \in 1..n |->
                                                 RowKey(page'.plan.rows[k])],
                                         again |-> FALSE]
        /\ UNCHANGED <<antibodies, tubes, volumes>>

-----------------------------------------------------------------------------
(* load_standard_antibodies, load_standard_tubes                           *)

FCX == "TruStain FcX(TM) (anti-mouse CD16/32) Antibody"
                              \* "TruStain FcX™ (anti-mouse CD16/32) Antibody"
LIVE_DYE == "Live/Dye eF780"
SMA == "[alpha]-SMA AF647"                      \* "α-SMA AF647"

\* standard_antibodies
StandardAntibodies ==
    << [name |-> FCX, short_name |-> "FcX", concentration |-> 500,
        recommended_use |-> 100, type |-> FC_BLOCK],
       [name |-> LIVE_DYE, short_name |-> "LiveDye", concentration |-> 1000,
        recommended_use |-> 50, type |-> VIABILITY],
       [name |-> CD45, short_name |-> "CD45", concentration |-> 200,
        recommended_use |-> 25, type |-> SURFACE],
       [name |-> SMA, short_name |-> "[alpha]-SMA", concentration |-> 200,
        recommended_use |-> 50, type |-> INTRACELLULAR] >>

\* for ab in standard_antibodies: st.session_state.antibodies[ab.name] = ab
RECURSIVE StoreAll(_, _)
StoreAll(abs, list) ==
    IF list = <<>> THEN abs
    ELSE StoreAll(DictSet(abs, Head(list).name, Head(list)), Tail(list))

\* One entry of standard_tubes.
StandardTube(name, description, list, needs_fixation, is_control, control_type) ==
    [k |-> name,
     v |-> [name |-> name, description |-> description, antibodies |-> list,
            needs_fixation |-> needs_fixation, is_control |-> is_control,
            control_type |-> control_type]]

\* standard_tubes (the descriptions are given in English).
StandardTubes ==
    << StandardTube("Blank", "unstained control", <<>>, FALSE, TRUE, "Blank"),
       StandardTube("FcX_Only", "Fc block only", <<FCX>>,
                    FALSE, TRUE, "Single"),
       StandardTube("Live_Only", "viability dye single stain",
                    <<FCX, LIVE_DYE>>, FALSE, TRUE, "Single"),
       StandardTube("CD45_Only", "CD45 single stain",
                    <<FCX, CD45>>, FALSE, TRUE, "Single"),
       StandardTube("[alpha]SMA_Only", "[alpha]-SMA single stain",
                    <<FCX, SMA>>, TRUE, TRUE, "Single"),
                                                        \* "αSMA_Only"
       StandardTube("FMO_[alpha]SMA", "fluorescence minus one",
                    <<FCX, LIVE_DYE, CD45>>, FALSE, TRUE, "FMO"),
                                                        \* "FMO_αSMA"
       StandardTube("Full_Stain", "full stain, all antibodies",
                    <<FCX, LIVE_DYE, CD45, SMA>>, TRUE, FALSE, "") >>

\* The button "load the standard template": the standard antibodies are
\* stored under their names and the tube dict is replaced.
LoadStandardTemplate ==
    /\ antibodies' = StoreAll(antibodies, StandardAntibodies)
    /\ tubes' = StandardTubes
    /\ page' = NoPage
    /\ UNCHANGED <<volumes, planner, history>>

-----------------------------------------------------------------------------
(* render_sidebar: reset, save project, load project                       *)

\* The button "reset".
ResetProject ==
    /\ antibodies' = <<>>
    /\ tubes' = <<>>
    /\ page' = NoPage
    /\ UNCHANGED <<volumes, planner, history>>

\* str(t) of a member of AntibodyType, which json.dumps(default=str) writes.
EnumStr(t) ==
    CASE t = SURFACE -> "AntibodyType.SURFACE"
      [] t = INTRACELLULAR -> "AntibodyType.INTRACELLULAR"
      [] t = VIABILITY -> "AntibodyType.VIABILITY"
      [] t = FC_BLOCK -> "AntibodyType.FC_BLOCK"
      [] t = OTHER_TYPE -> "AntibodyType.OTHER"

\* t.value of a member of AntibodyType.
EnumValue(t) ==
    CASE t = SURFACE -> "[surface antibody]"          \* "表面抗体"
      [] t = INTRACELLULAR -> "[intracellular antibody]"  \* "胞内抗体"
      [] t = VIABILITY -> "[viability dye]"           \* "死活染料"
      [] t = FC_BLOCK -> "[Fc block]"                 \* "Fc阻断剂"
      [] t = OTHER_TYPE -> "[other]"                  \* "其他"

\* json.dumps(project_data, default=str): the antibodies and the tubes as
\* asdict gives them, the type of an antibody written by str.
SaveJSON(abs, tbs, v) ==
    [antibodies |-> [i \in 1..Len(abs) |->
                        [k |-> abs[i].k,
                         v |-> [abs[i].v EXCEPT !.type = EnumStr(@)]]],
     tubes |-> tbs,
     volumes |-> v]

\* The button "save project": the sidebar shows the download button.
SaveProject ==
    /\ page' = [NoPage EXCEPT
                   !.kind = "save", !.status = "ok",
                   !.json = <<SaveJSON(antibodies, tubes, volumes)>>]
    /\ UNCHANGED <<antibodies, tubes, volumes, planner, history>>

\* type_map = {t.value: t for t in AntibodyType}
TypeMapHas(label) == \E t \in AntibodyType : EnumValue(t) = label

TypeMapGet(label) == CHOOSE t \in AntibodyType : EnumValue(t) = label

\* The loop over the antibodies of the file, into the cleared catalog; the
\* lookup type_map[ab_dict['type']] raises KeyError and ends the loop.
RECURSIVE LoadAntibodies(_, _)
LoadAntibodies(abs, items) ==
    IF items = <<>> THEN [antibodies |-> abs, raised |-> FALSE]
    ELSE IF ~TypeMapHas(Head(items).v.type)
         THEN [antibodies |-> abs, raised |-> TRUE]
         ELSE LoadAntibodies(
                  DictSet(abs, Head(items).k,
                          [Head(items).v EXCEPT !.type = TypeMapGet(@)]),
                  Tail(items))

\* The loop over the tubes of the file, into the cleared tube dict.
RECURSIVE LoadTubes(_, _)
LoadTubes(tbs, items) ==
    IF items = <<>> THEN tbs
    ELSE LoadTubes(DictSet(tbs, Head(items).k, Head(items).v), Tail(items))

\* A project file that was not written by the program: the type of the
\* antibody is the label of the enum member, and the tube lists the antibody
\* twice.
EditedFile ==
    [antibodies |->
        << [k |-> CD45,
            v |-> [name |-> CD45, short_name |-> "CD45",
                   concentration |-> 200, recommended_use |-> 25,
                   type |-> EnumValue(SURFACE)]] >>,
     tubes |->
        << [k |-> "Full_Stain",
            v |-> [name |-> "Full_Stain", description |-> "full stain",
                   antibodies |-> <<CD45, CD45>>, needs_fixation |-> FALSE,
                   is_control |-> FALSE, control_type |-> ""]] >>,
     volumes |-> DefaultVolumes]

\* What the file uploader can be given: the file behind the download button
\* on the screen, or the file edited by hand.
UploadFiles(pg) == {pg.json[i] : i \in 1..Len(pg.json)} \cup {EditedFile}

\* A file is uploaded: the catalog is cleared and loaded, then the tubes, then
\* the volumes; an exception on the way is caught and reported, and what was
\* done before it stays.
LoadProject ==
    \E file \in UploadFiles(page) :
        LET loaded == LoadAntibodies(<<>>, file.antibodies)
        IN  /\ antibodies' = loaded.antibodies
            /\ tubes' = IF loaded.raised THEN tubes
                        ELSE LoadTubes(<<>>, file.tubes)
            /\ volumes' = IF loaded.raised THEN volumes ELSE file.volumes
            /\ page' = [NoPage EXCEPT
                           !.kind = "load",
                           !.status = IF loaded.raised THEN "KeyError"
                                      ELSE "ok",
                           !.uploaded = <<file>>]
            /\ UNCHANGED <<planner, history>>

-----------------------------------------------------------------------------
(* Antibody.__post_init__: the short name of an antibody made without one. *)
(* Here a text is the sequence of its characters.                          *)

\* "Anti-Mouse CD45"
N_ANTI_MOUSE_CD45 ==
    <<"A", "n", "t", "i", "-", "M", "o", "u", "s", "e", " ", "C", "D", "4", "5">>

\* "Rat Anti-CD45"
N_RAT_ANTI_CD45 ==
    <<"R", "a", "t", " ", "A", "n", "t", "i", "-", "C", "D", "4", "5">>

\* "Anti-A Anti-B C"
N_ANTI_TWICE ==
    <<"A", "n", "t", "i", "-", "A", " ", "A", "n", "t", "i", "-", "B", " ", "C">>

\* "Rat Anti-"
N_RAT_ANTI ==
    <<"R", "a", "t", " ", "A", "n", "t", "i", "-">>

\* "Live Dye eF780"
N_LIVE_DYE ==
    <<"L", "i", "v", "e", " ", "D", "y", "e", " ", "e", "F", "7", "8", "0">>

\* "CD45"
N_CD45 ==
    <<"C", "D", "4", "5">>

\* "Permeabilizer"
N_PERMEABILIZER ==
    <<"P", "e", "r", "m", "e", "a", "b", "i", "l", "i", "z", "e", "r">>

\* The names the form "add antibody" is submitted with on the way through
\* __post_init__.
NameInputs ==
    {N_ANTI_MOUSE_CD45, N_RAT_ANTI_CD45, N_ANTI_TWICE, N_RAT_ANTI,
     N_LIVE_DYE, N_CD45, N_PERMEABILIZER}

\* The short names it is submitted with: the field left empty, or "S1".
ShortNameInputs == { <<>>, <<"S", "1">> }

\* "Anti-"
ANTI == <<"A", "n", "t", "i", "-">>

\* The characters of the names for which str.isspace and str.isupper hold.
Whitespace == {" "}
Uppercase ==
    {"A", "B", "C", "D", "E", "F", "G", "H", "I", "J", "K", "L", "M", "N",
     "O", "P", "Q", "R", "S", "T", "U", "V", "W", "X", "Y", "Z"}

\* text[i:].startswith(sep)
StartsAt(text, i, sep) ==
    /\ i + Len(sep) - 1 <= Len(text)
    /\ SubSeq(text, i, i + Len(sep) - 1) = sep

\* sep in text
Contains(text, sep) == \E i \in 1..Len(text) : StartsAt(text, i, sep)

\* text.split(sep): the pieces between the occurrences of sep, found from
\* the left; piece is the piece being read and i the place of the reading.
RECURSIVE SplitFrom(_, _, _, _)
SplitFrom(text, sep, i, piece) ==
    IF i > Len(text) THEN <<piece>>
    ELSE IF StartsAt(text, i, sep)
         THEN <<piece>> \o SplitFrom(text, sep, i + Len(sep), <<>>)
         ELSE SplitFrom(text, sep, i + 1, Append(piece, text[i]))

SplitOn(text, sep) == SplitFrom(text, sep, 1, <<>>)

\* text.split(): the runs of characters between whitespace, none empty.
RECURSIVE WordsFrom(_, _, _)
WordsFrom(text, i, word) ==
    IF i > Len(text) THEN (IF word = <<>> THEN <<>> ELSE <<word>>)
    ELSE IF text[i] \in Whitespace
         THEN (IF word = <<>> THEN <<>> ELSE <<word>>)
              \o WordsFrom(text, i + 1, <<>>)
         ELSE WordsFrom(text, i + 1, Append(word, text[i]))

Words(text) == WordsFrom(text, 1, <<>>)

\* ''.join([word[0] for word in name.split() if word[0].isupper()])
Initials(name) ==
    LET upper == SelectSeq(Words(name), LAMBDA word : word[1] \in Uppercase)
    IN  [k \in 1..Len(upper) |-> upper[k][1]]

\* name[:10]
Prefix10(name) == SubSeq(name, 1, IF Len(name) < 10 THEN Len(name) ELSE 10)

\* Mutant of the rule: split("Anti-")[1] in place of split("Anti-")[-1].
PostInit_SecondPiece(name, short_name) ==
    IF short_name # <<>> THEN [raised |-> FALSE, short_name |-> short_name]
    ELSE IF Contains(name, ANTI)
    THEN LET words == Words(SplitOn(name, ANTI)[2])
         IN  IF words = <<>> THEN [raised |-> TRUE, short_name |-> <<>>]
             ELSE [raised |-> FALSE, short_name |-> words[1]]
    ELSE IF Contains(name, <<" ">>)
    THEN [raised |-> FALSE, short_name |-> Initials(name)]
    ELSE [raised |-> FALSE, short_name |-> Prefix10(name)]

\* __post_init__: the short name the antibody gets; [0] of an empty list
\* raises IndexError.
PostInit(name, short_name) ==
    IF short_name # <<>> THEN [raised |-> FALSE, short_name |-> short_name]
    ELSE IF Contains(name, ANTI)
    THEN LET pieces == SplitOn(name, ANTI)
             words == Words(pieces[Len(pieces)])
         IN  IF words = <<>> THEN [raised |-> TRUE, short_name |-> <<>>]
             ELSE [raised |-> FALSE, short_name |-> words[1]]
    ELSE IF Contains(name, <<" ">>)
    THEN [raised |-> FALSE, short_name |-> Initials(name)]
    ELSE [raised |-> FALSE, short_name |-> Prefix10(name)]

\* The form "add antibody" is submitted with a name and with or without a
\* short name: Antibody(...) runs __post_init__ and the antibody is stored
\* under its name; an IndexError ends the run before anything is stored.
SubmitAntibody ==
    \E name \in NameInputs, short_name \in ShortNameInputs :
        LET made == PostInit(name, short_name)
            form == [name |-> name, short_name |-> short_name]
        IN  /\ DictHas(antibodies, name) \/ Len(antibodies) < MaxAntibodies
            /\ antibodies' =
                   IF made.raised THEN antibodies
                   ELSE DictSet(antibodies, name,
                                [name |-> name,
                                 short_name |-> made.short_name,
                                 concentration |-> 200,
                                 recommended_use |-> 25,
                                 type |-> SURFACE])
            /\ page' = [NoPage EXCEPT
                           !.kind = "antibodies",
                           !.status = IF made.raised THEN "IndexError"
                                      ELSE "ok",
                           !.form = <<form>>]
            /\ UNCHANGED <<tubes, volumes, planner, history>>

-----------------------------------------------------------------------------

Init ==
    /\ antibodies = <<>>
    /\ tubes = <<>>
    /\ volumes = DefaultVolumes
    /\ planner = NoPlanner
    /\ page = NoPage
    /\ history = NoHistory

Next ==
    \/ AddAntibody
    \/ DeleteAntibody
    \/ AddTube
    \/ DeleteTube
    \/ RenderMatrix
    \/ RenderMasterMix

Spec == Init /\ [][Next]_vars

\* The staining matrix alone: the catalog, the tubes and the matrix page.
MatrixNext ==
    \/ AddAntibody
    \/ DeleteAntibody
    \/ AddTube
    \/ DeleteTube
    \/ RenderMatrix

MatrixSpec == Init /\ [][MatrixNext]_vars

\* The master mix alone: the catalog, the tubes and the master-mix page.
MixNext ==
    \/ AddAntibody
    \/ DeleteAntibody
    \/ AddTube
    \/ DeleteTube
    \/ RenderMasterMix

MixSpec == Init /\ [][MixNext]_vars

\* The experiment planner, from the state in which the form "add antibody"
\* was submitted once, for the antibody CD45.
PlanInit ==
    /\ \E form \in AntibodyForms :
           /\ form.name = CD45
           /\ form.type = SURFACE
           /\ antibodies = DictSet(<<>>, form.name, form)
    /\ tubes = <<>>
    /\ volumes = DefaultVolumes
    /\ planner = NoPlanner
    /\ page = NoPage
    /\ history = NoHistory

PlanNext ==
    \/ AddTube
    \/ DeleteTube
    \/ RenderPlanner

PlanSpec == PlanInit /\ [][PlanNext]_vars

\* The catalog: the operations that add to it, delete from it and replace
\* it.
CatalogNext ==
    \/ AddAntibody
    \/ DeleteAntibody
    \/ LoadStandardTemplate
    \/ ResetProject
    \/ SaveProject
    \/ LoadProject

CatalogSpec == Init /\ [][CatalogNext]_vars

\* The project file: the operations that build a catalog and a tube set, and
\* save and load.
ProjectNext ==
    \/ AddAntibody
    \/ AddTube
    \/ LoadStandardTemplate
    \/ ResetProject
    \/ SaveProject
    \/ LoadProject

ProjectSpec == Init /\ [][ProjectNext]_vars

\* The three pages that compute, the matrix, the master mix and the planner,
\* in any order, from the state in which the form "add antibody" was
\* submitted once, for the antibody CD45, and then the form "create tube",
\* for the tube Full_Stain with CD45 ticked.
PagesInit ==
    /\ \E form \in AntibodyForms :
           /\ form.name = CD45
           /\ form.type = SURFACE
           /\ antibodies = DictSet(<<>>, form.name, form)
    /\ \E form \in TubeForms :
           /\ form.name = "Full_Stain"
           /\ tubes = DictSet(<<>>, form.name,
                          [name |-> form.name,
                           description |-> form.description,
                           antibodies |-> <<CD45>>,
                           needs_fixation |-> FALSE,
                           is_control |-> form.is_control,
                           control_type |-> form.control_type])
    /\ volumes = DefaultVolumes
    /\ planner = NoPlanner
    /\ page = NoPage
    /\ history = NoHistory

PagesNext ==
    \/ RenderMatrix
    \/ RenderMasterMix
    \/ RenderPlanner

PagesSpec == PagesInit /\ [][PagesNext]_vars

\* The catalog of antibodies made by the dataclass: the form with the names
\* as texts of characters, and the delete button.
ShortNameNext ==
    \/ SubmitAntibody
    \/ DeleteAntibody

ShortNameSpec == Init /\ [][ShortNameNext]_vars

-----------------------------------------------------------------------------
(* The claims.  The formulas read the page on the screen against the       *)
(* stored catalog, tubes and volumes: every change of those clears the     *)
(* page, so a page that is shown was computed from the stored values.      *)

MatrixShown == page.kind = "matrix" /\ page.status = "ok"

MixComputed == page.kind = "mastermix" /\ page.status # "warning"

DescriptiveKeys ==
    {KEY_TUBE_NAME, KEY_DESCRIPTION, KEY_FIXATION, KEY_CONTROL_TYPE}

\* The cells of a row besides the four descriptive ones.
PresenceCells(row) == SelectSeq(row, LAMBDA c : c.k \notin DescriptiveKeys)

\* C1: for a catalog and a tube set that are not empty, the matrix has one
\* row for each tube and every row has one presence column for each reagent
\* of the catalog, whatever the names are.
C1_MatrixShape ==
    MatrixShown =>
        /\ Len(page.matrix) = Len(tubes)
        /\ \A i \in 1..Len(page.matrix) :
               Len(PresenceCells(page.matrix[i])) = Len(antibodies)

\* C2: the presence flag of (tube, reagent) is set exactly when the name of
\* the reagent is in the reagent list of the tube, for every tube and every
\* reagent of the catalog.
C2_PresenceIffMember ==
    MatrixShown =>
        \A i \in 1..Len(tubes), j \in 1..Len(antibodies) :
            /\ DictHas(page.matrix[i], antibodies[j].k)
            /\ DictGet(page.matrix[i], antibodies[j].k) = CHECK
               <=> InList(antibodies[j].k, tubes[i].v.antibodies)

\* C3: the k-th row is the k-th tube of the tube map and the k-th presence
\* column is the k-th reagent of the catalog map.
C3_InsertionOrder ==
    MatrixShown =>
        /\ [i \in 1..Len(page.matrix) |->
               DictGet(page.matrix[i], KEY_TUBE_NAME)] = DictKeys(tubes)
        /\ \A i \in 1..Len(page.matrix) :
               DictKeys(PresenceCells(page.matrix[i])) = DictKeys(antibodies)

\* C4: building the matrix with an empty catalog or an empty tube set ends
\* in the warning, produces no matrix and leaves the catalog, the tubes and
\* the volumes as they were.
C4_EmptyInputWarns ==
    [][ (page'.kind = "matrix" /\ (antibodies = <<>> \/ tubes = <<>>))
        => /\ page'.status = "warning"
           /\ page'.matrix = <<>>
           /\ antibodies' = antibodies
           /\ tubes' = tubes
           /\ volumes' = volumes ]_vars

\* The matrix page warned with tubes stored and an empty catalog.
C4_Witness ==
    /\ page.kind = "matrix"
    /\ page.status = "warning"
    /\ antibodies = <<>>
    /\ tubes # <<>>

\* C5: a tube with fixation is in the intracellular group and not in the
\* surface group, also with an empty reagent list; a tube without fixation
\* is in the surface group alone when its list is not empty and in neither
\* group when it is empty; no tube name is in both groups.
C5_PartitionDisjoint ==
    MixComputed =>
        /\ \A i \in 1..Len(tubes) :
               LET tube == tubes[i].v
                   in_s == InList(tubes[i].k, page.mix.surface_tubes)
                   in_i == InList(tubes[i].k, page.mix.intracellular_tubes)
               IN  /\ tube.needs_fixation => in_i /\ ~in_s
                   /\ ~tube.needs_fixation /\ tube.antibodies # <<>>
                      => in_s /\ ~in_i
                   /\ ~tube.needs_fixation /\ tube.antibodies = <<>>
                      => ~in_s /\ ~in_i
        /\ \A m \in 1..Len(page.mix.surface_tubes) :
               ~InList(page.mix.surface_tubes[m], page.mix.intracellular_tubes)

\* A fixation tube with reagents and a second tube without fixation were
\* partitioned.
C5_Witness ==
    /\ MixComputed
    /\ \E i, j \in 1..Len(tubes) :
           /\ tubes[i].v.needs_fixation
           /\ tubes[i].v.antibodies # <<>>
           /\ InList(tubes[i].k, page.mix.intracellular_tubes)
           /\ ~tubes[j].v.needs_fixation
           /\ InList(tubes[j].k, page.mix.surface_tubes)

\* The tubes of the two groups, read from the stored tubes.
SurfaceGroup ==
    {i \in 1..Len(tubes) :
        ~tubes[i].v.needs_fixation /\ tubes[i].v.antibodies # <<>>}

IntracellularGroup == {i \in 1..Len(tubes) : tubes[i].v.needs_fixation}

\* C6: for each mix, the total tubes are the tubes of its group plus the
\* extra tubes, and the total volume is the per-tube volume of the mix
\* (per_tube for surface, intracellular_per_tube for intracellular) times the
\* total tubes; a run that ends without error computes them for each group
\* that is not empty.
C6_GroupTotals ==
    MixComputed =>
        /\ page.mix.surface.present =>
               /\ page.mix.surface.total_tubes
                  = Cardinality(SurfaceGroup) + volumes.extra_tubes
               /\ page.mix.surface.total_volume
                  = volumes.per_tube
                    * (Cardinality(SurfaceGroup) + volumes.extra_tubes)
        /\ page.mix.intracellular.present =>
               /\ page.mix.intracellular.total_tubes
                  = Cardinality(IntracellularGroup) + volumes.extra_tubes
               /\ page.mix.intracellular.total_volume
                  = volumes.intracellular_per_tube
                    * (Cardinality(IntracellularGroup) + volumes.extra_tubes)
        /\ page.status = "ok" =>
               /\ page.mix.surface.present <=> SurfaceGroup # {}
               /\ page.mix.intracellular.present <=> IntracellularGroup # {}

\* Both mixes were computed without error, with extra tubes, and their total
\* volumes differ.
C6_Witness ==
    /\ page.kind = "mastermix"
    /\ page.status = "ok"
    /\ page.mix.surface.present
    /\ page.mix.intracellular.present
    /\ volumes.extra_tubes > 0
    /\ page.mix.surface.total_volume # page.mix.intracellular.total_volume

\* A reagent of the catalog is referenced by a tube of a group.
ReferencedBy(group, name) ==
    \E i \in group : InList(name, tubes[i].v.antibodies)

\* The reagents of the catalog that qualify for a mix.
Qualifying(group, types) ==
    {j \in 1..Len(antibodies) :
        antibodies[j].v.type \in types /\ ReferencedBy(group, antibodies[j].k)}

\* The dose table of a mix holds a row of the reagent: its short name with
\* its concentration.
HasDoseRow(block, ab) ==
    \E m \in 1..Len(block.results) :
        /\ block.results[m].antibody = ab.short_name
        /\ block.results[m].concentration = ab.concentration

\* C7: a reagent has a dose row in the surface mix exactly when a tube of the
\* surface group references it, it is in the catalog and its type is Surface,
\* Viability or FcBlock; it has one in the intracellular mix exactly when a
\* tube of the intracellular group references it and its type is
\* Intracellular.
C7_DoseRowIffQualifies ==
    MixComputed =>
        \A j \in 1..Len(antibodies) :
            /\ HasDoseRow(page.mix.surface, antibodies[j].v)
               <=> j \in Qualifying(SurfaceGroup,
                                    {SURFACE, VIABILITY, FC_BLOCK})
            /\ HasDoseRow(page.mix.intracellular, antibodies[j].v)
               <=> j \in Qualifying(IntracellularGroup, {INTRACELLULAR})

\* The row reports the doses of the reagent exactly: per tube
\* recommended_use * cell_count / concentration, in total that times the
\* total tubes (the row holds hundredths of a uL, recommended_use is in
\* hundredths and cell_count in tenths).
ReportsExactDose(row, ab, total_tubes) ==
    /\ row.antibody = ab.short_name
    /\ row.concentration = ab.concentration
    /\ row.per_tube_vol * 1000 * ab.concentration
       = 100 * ab.recommended_use * volumes.cell_count
    /\ row.total_vol * 1000 * ab.concentration
       = 100 * ab.recommended_use * volumes.cell_count * total_tubes

\* C8: every dose row reports the per-tube dose recommended_use * cell_count
\* / concentration and the total dose, the per-tube dose times the total
\* tubes of the group; 0.25 * 1.0 / 200 is reported as 0.00125 and not as 0.
C8_ReportedDoseExact ==
    MixComputed =>
        \A block \in {page.mix.surface, page.mix.intracellular} :
            \A m \in 1..Len(block.results) :
                \E j \in 1..Len(antibodies) :
                    ReportsExactDose(block.results[m], antibodies[j].v,
                                     block.total_tubes)

\* C9: every distinct reagent of the catalog that qualifies for a mix is in
\* the dose table of the mix exactly once, also when two reagents share a
\* short name and when several tubes of the group reference one reagent.
C9_OneRowPerReagent ==
    MixComputed =>
        /\ page.mix.surface.present =>
               Len(page.mix.surface.results)
               = Cardinality(Qualifying(SurfaceGroup,
                                        {SURFACE, VIABILITY, FC_BLOCK}))
        /\ page.mix.intracellular.present =>
               Len(page.mix.intracellular.results)
               = Cardinality(Qualifying(IntracellularGroup, {INTRACELLULAR}))

\* C10: with a reagent of concentration 0 in a tube of a mix group, the
\* master-mix computation does not end in an uncaught error.
C10_NoUncaughtError ==
    page.kind = "mastermix" => page.status # "ZeroDivisionError"

\* The block of a mix carries the tube names, the total tubes and the total
\* volume of its group: it is shown with them.
CarriesGroup(block, names, per_tube_volume) ==
    /\ block.present
    /\ block.shown
    /\ block.tubes = names
    /\ block.total_tubes = Len(names) + volumes.extra_tubes
    /\ block.total_volume
       = per_tube_volume * (Len(names) + volumes.extra_tubes)

\* The names of the tubes of a group, in the order of the tube map.
NamesOf(group) ==
    DictKeys(SelectSeq(tubes, LAMBDA e :
        \E i \in group : tubes[i].k = e.k))

\* C11: the block of a mix is absent when its group is empty; when the group
\* is not empty the block is present and carries the tube names, the total
\* tubes and the total volume, also when no reagent of the tubes of the group
\* qualifies for a dose row.
C11_BlockIffGroup ==
    MixComputed =>
        /\ SurfaceGroup = {} => ~page.mix.surface.present
        /\ IntracellularGroup = {} => ~page.mix.intracellular.present
        /\ SurfaceGroup # {} =>
               CarriesGroup(page.mix.surface, NamesOf(SurfaceGroup),
                            volumes.per_tube)
        /\ IntracellularGroup # {} =>
               CarriesGroup(page.mix.intracellular,
                            NamesOf(IntracellularGroup),
                            volumes.intracellular_per_tube)

\* C12: a reagent of type Other takes part in no volume computation of the
\* page: every dose row of the two tables is the row of a reagent of another
\* type, and the usage statistics hold no row (usage count, total volume) of
\* a reagent of type Other.
C12_OtherNeverDosed ==
    MixComputed =>
        /\ \A block \in {page.mix.surface, page.mix.intracellular} :
               \A m \in 1..Len(block.results) :
                   \E j \in 1..Len(antibodies) :
                       /\ antibodies[j].v.type # OTHER_TYPE
                       /\ block.results[m].antibody
                          = antibodies[j].v.short_name
                       /\ block.results[m].concentration
                          = antibodies[j].v.concentration
        /\ \A m \in 1..Len(page.mix.usage) :
               page.mix.usage[m].type # OTHER_TYPE

-----------------------------------------------------------------------------
(* The claims about the experiment plan, under PlanSpec.                   *)

\* The planner page shows a plan table made of the stored groups.
PlanShown == page.kind = "planner" /\ page.plan.table

\* The number of rows the plan is to have.
PlanSize == Len(planner.groups) * page.plan.replicates * Len(tubes)

\* C13: for a group list that is not empty, replicates >= 1 and any tube
\* set, the plan has len(groups) * replicates * len(tubes) rows, with and
\* without randomization.
C13_RowCount ==
    (PlanShown /\ planner.groups # <<>>) =>
        Len(page.plan.rows) = PlanSize

\* A randomized plan of 2 groups, 2 replicates and 2 tubes was generated.
C13_Witness ==
    /\ PlanShown
    /\ page.plan.randomize
    /\ Len(planner.groups) = 2
    /\ page.plan.replicates = 2
    /\ Len(tubes) = 2
    /\ Len(page.plan.rows) = 8

\* C14: without randomization the k-th row is the row of the nested order
\* (group, then replicate 1..replicates, then tube in the order of the tube
\* map) and its acquisition order is k.
C14_NestedOrder ==
    (PlanShown /\ ~page.plan.randomize) =>
        /\ Len(page.plan.rows) = PlanSize
        /\ \A k \in 1..Len(page.plan.rows) :
               LET t == Len(tubes)
                   r == page.plan.replicates
                   row == page.plan.rows[k]
               IN  /\ row.group = planner.groups[((k - 1) \div (r * t)) + 1]
                   /\ row.rep = (((k - 1) \div t) % r) + 1
                   /\ row.tube = tubes[((k - 1) % t) + 1].k
                   /\ row.order = k

\* A plan of 2 groups, 2 replicates and 2 tubes was generated without
\* randomization.
C14_Witness ==
    /\ PlanShown
    /\ ~page.plan.randomize
    /\ Len(planner.groups) = 2
    /\ page.plan.replicates = 2
    /\ Len(tubes) = 2
    /\ page.plan.rows[8].order = 8

\* C15: with randomization the rows are a permutation of the rows made
\* without it (each of those is in the plan exactly once, up to its
\* acquisition order, none lost and none twice), and the k-th row of the
\* shuffled plan has the acquisition order k.
C15_ShuffleIsPermutation ==
    (PlanShown /\ page.plan.randomize) =>
        LET nested == PlanData(tubes, planner.groups, page.plan.replicates)
            rows == page.plan.rows
        IN  /\ Len(rows) = Len(nested)
            /\ \A i \in 1..Len(nested) :
                   Cardinality({k \in 1..Len(rows) :
                       [rows[k] EXCEPT !.order = i] = nested[i]}) = 1
            /\ \A k \in 1..Len(rows) : rows[k].order = k

\* A randomized plan of 8 rows was generated whose first row is not the first
\* row of the nested order.
C15_Witness ==
    /\ PlanShown
    /\ page.plan.randomize
    /\ Len(page.plan.rows) = 8
    /\ RowKey(page.plan.rows[1])
       # <<planner.groups[1], 1, tubes[1].k>>

\* C16: a randomized generation from the same tubes, groups and replicates
\* as the first randomized generation gives the rows in the same order,
\* whatever was done in between.
C16_SameOrderAgain ==
    ( /\ PlanShown
      /\ page.plan.randomize
      /\ history.set
      /\ history.tube_names = DictKeys(tubes)
      /\ history.groups = planner.groups
      /\ history.replicates = page.plan.replicates )
    => [k \in 1..Len(page.plan.rows) |-> RowKey(page.plan.rows[k])]
       = history.order

\* A randomized plan of 8 rows was generated again, from the tubes, groups
\* and replicates of the first one.
C16_Witness ==
    /\ PlanShown
    /\ page.plan.randomize
    /\ history.set
    /\ history.again
    /\ history.tube_names = DictKeys(tubes)
    /\ history.groups = planner.groups
    /\ history.replicates = page.plan.replicates
    /\ Len(history.order) = 8

\* C17: generating a plan with an empty group list ends in the error
\* EmptyGroupsError and shows no plan table.
C17_EmptyGroupsError ==
    ( /\ page.kind = "planner"
      /\ page.status # "warning"
      /\ planner.generated
      /\ planner.groups = <<>> )
    => /\ page.status = "EmptyGroupsError"
       /\ ~page.plan.table

-----------------------------------------------------------------------------
(* The claims about the project file and the catalog, under ProjectSpec    *)
(* and CatalogSpec.                                                        *)

\* C18: loading the file that was just saved gives back the catalog and the
\* tube set that were saved: the same names, the same values of the fields,
\* the type of each reagent the same member of the enum.
C18_RoundTrip ==
    [][ ( /\ page.kind = "save"
          /\ page'.kind = "load"
          /\ page'.uploaded = page.json )
        => /\ antibodies' = antibodies
           /\ tubes' = tubes ]_vars

\* No two entries of the catalog have the same name.
NamesUnique ==
    \A i, j \in 1..Len(antibodies) :
        antibodies[i].k = antibodies[j].k => i = j

\* C19: the names of the catalog are unique after any sequence of add,
\* load-standard, delete and load-project; adding under a name that is
\* present overwrites the entry (the size stays, the entry holds the new
\* values) and adding under a new name grows the catalog by one.
C19_NamesUnique ==
    /\ []NamesUnique
    /\ [][ AddAntibody =>
             \E form \in AntibodyForms :
                 /\ DictHas(antibodies', form.name)
                 /\ DictGet(antibodies', form.name) = form
                 /\ Len(antibodies')
                    = IF DictHas(antibodies, form.name)
                      THEN Len(antibodies) ELSE Len(antibodies) + 1 ]_vars

\* The standard catalog of four was loaded and the entry of CD45 was then
\* overwritten by the form: four entries, CD45 of the type Other.
C19_Witness ==
    /\ Len(antibodies) = 4
    /\ DictHas(antibodies, FCX)
    /\ DictHas(antibodies, CD45)
    /\ DictGet(antibodies, CD45).type = OTHER_TYPE

\* C20: no tube lists the same reagent name twice, in every state reached by
\* creating tubes, loading the standard tubes and loading a project file.
C20_NoDuplicateRefs ==
    \A t \in 1..Len(tubes) :
        \A i, j \in 1..Len(tubes[t].v.antibodies) :
            tubes[t].v.antibodies[i] = tubes[t].v.antibodies[j] => i = j

-----------------------------------------------------------------------------
(* The claims about dangling references, under Spec.                       *)

\* The names a tube lists that the catalog does not hold.
Dangling ==
    {n \in UNION {{tubes[t].v.antibodies[i] :
                      i \in 1..Len(tubes[t].v.antibodies)} :
                  t \in 1..Len(tubes)} : ~DictHas(antibodies, n)}

\* Every dose row of a table is the row of a reagent of the catalog.
RowsOfCatalog(block) ==
    \A m \in 1..Len(block.results) :
        \E j \in 1..Len(antibodies) :
            /\ block.results[m].antibody = antibodies[j].v.short_name
            /\ block.results[m].concentration = antibodies[j].v.concentration

\* C21: deleting a reagent leaves the reagent lists of the tubes as they
\* were; while a tube lists a name the catalog does not hold, the matrix has
\* no column of that name, every dose row of the master mix is the row of a
\* reagent of the catalog, and neither page ends in an error.
C21_DanglingTolerated ==
    /\ [][ DeleteAntibody => tubes' = tubes ]_vars
    /\ [] ( Dangling # {} =>
              /\ MatrixShown =>
                     \A i \in 1..Len(page.matrix) :
                         \A n \in Dangling : ~DictHas(page.matrix[i], n)
              /\ page.kind = "mastermix" =>
                     /\ page.status \in {"ok", "warning"}
                     /\ RowsOfCatalog(page.mix.surface)
                     /\ RowsOfCatalog(page.mix.intracellular) )

-----------------------------------------------------------------------------
(* The claims about a failed load, under CatalogSpec.                      *)

\* C22: a load of a project file that fails leaves the catalog and the tube
\* set as they were before the load: no entry is removed or replaced.
C22_FailedLoadKeepsState ==
    [][ (page'.kind = "load" /\ page'.status # "ok")
        => /\ antibodies' = antibodies
           /\ tubes' = tubes ]_vars

-----------------------------------------------------------------------------
(* The claims about the order of the inputs of the master mix, under       *)
(* MixSpec.                                                                *)

\* The orders a sequence can be put in.
SeqPerms(s) ==
    {[i \in 1..Len(s) |-> s[f[i]]] : f \in Permutations(1..Len(s))}

\* One order of the reagent list for each tube.
ListOrders(tbs) ==
    LET all == UNION {SeqPerms(tbs[i].v.antibodies) : i \in 1..Len(tbs)}
    IN  {g \in [1..Len(tbs) -> all] :
            \A i \in 1..Len(tbs) : g[i] \in SeqPerms(tbs[i].v.antibodies)}

\* The tube sets that hold the same tubes in another order, each with its
\* reagent list in another order.
Reordered(tbs) ==
    {[i \in 1..Len(tbs) |-> [tbs[f[i]] EXCEPT !.v.antibodies = g[f[i]]]] :
        f \in Permutations(1..Len(tbs)), g \in ListOrders(tbs)}

\* Two blocks report the same: the same tubes and totals and the same dose
\* rows, whatever the order of the rows.
SameBlock(a, b) ==
    /\ a.present = b.present
    /\ a.shown = b.shown
    /\ {a.tubes[i] : i \in 1..Len(a.tubes)}
       = {b.tubes[i] : i \in 1..Len(b.tubes)}
    /\ a.total_tubes = b.total_tubes
    /\ a.total_volume = b.total_volume
    /\ {a.results[i] : i \in 1..Len(a.results)}
       = {b.results[i] : i \in 1..Len(b.results)}

\* C23: the master-mix result is the same for every order of the reagent
\* names within the reagent lists and every order of the tubes: the same dose
\* rows (reagent, per-tube dose, total dose) and the same group totals.
C23_OrderStable ==
    (MixComputed /\ page.status = "ok") =>
        \A tbs \in Reordered(tubes) :
            LET other == MasterMix(antibodies, tbs, volumes)
            IN  /\ other.status = page.status
                /\ SameBlock(other.mix.surface, page.mix.surface)
                /\ SameBlock(other.mix.intracellular, page.mix.intracellular)

-----------------------------------------------------------------------------
(* The claims about what the pages store, under PagesSpec.                 *)

\* C24: a run of the matrix, the master-mix or the planner page leaves the
\* catalog and the tube set unchanged and writes no other stored state: not
\* the volume parameters, not the stored groups and replicates.
C24_PagesArePure ==
    [][ page'.kind \in {"matrix", "mastermix", "planner"}
        => /\ antibodies' = antibodies
           /\ tubes' = tubes
           /\ volumes' = volumes
           /\ planner' = planner ]_vars

-----------------------------------------------------------------------------
(* The claims about the short name, under ShortNameSpec.                   *)

\* The antibody page stored the antibody of the form it was submitted with.
AntibodyMade == page.kind = "antibodies" /\ page.status = "ok"

\* The place from which to the end the name holds no whitespace: the place
\* its last token starts at, for a name that does not end in whitespace.
LastTokenStart(name) ==
    CHOOSE a \in 1..Len(name) :
        /\ \A j \in a..Len(name) : name[j] \notin Whitespace
        /\ a = 1 \/ name[a - 1] \in Whitespace

\* The first max characters of a name.
PrefixOf(name, max) == [i \in 1..(IF Len(name) < max THEN Len(name) ELSE max)
                           |-> name[i]]

\* C25 as stated: an antibody made without a short name gets the last
\* whitespace-delimited token of its name when the name holds whitespace and
\* the first 10 characters of the name otherwise; a short name that is given
\* is kept.
C25_LastTokenOrPrefix ==
    AntibodyMade =>
        LET name == page.form[1].name
            given == page.form[1].short_name
            made == DictGet(antibodies, name).short_name
        IN  made = IF given # <<>> THEN given
                   ELSE IF \E i \in 1..Len(name) : name[i] \in Whitespace
                   THEN SubSeq(name, LastTokenStart(name), Len(name))
                   ELSE PrefixOf(name, 10)

\* The place where the last "Anti-" of a name starts.
LastAnti(name) ==
    CHOOSE i \in 1..Len(name) :
        /\ StartsAt(name, i, ANTI)
        /\ \A j \in (i + 1)..Len(name) : ~StartsAt(name, j, ANTI)

\* A token starts after the place p of a name.
HasTokenAfter(name, p) ==
    \E a \in (p + 1)..Len(name) : name[a] \notin Whitespace

\* The first token after the place p: from the first character that is no
\* whitespace up to the last one before whitespace or the end.
FirstTokenAfter(name, p) ==
    LET a == CHOOSE a \in (p + 1)..Len(name) :
                 /\ name[a] \notin Whitespace
                 /\ \A j \in (p + 1)..(a - 1) : name[j] \in Whitespace
        b == CHOOSE b \in a..Len(name) :
                 /\ \A j \in a..b : name[j] \notin Whitespace
                 /\ b = Len(name) \/ name[b + 1] \in Whitespace
    IN  [i \in 1..(b - a + 1) |-> name[a + i - 1]]

\* The uppercase characters that start a token of a name, in their order.
InitialsOf(name) ==
    LET starts == SelectSeq([i \in 1..Len(name) |-> i], LAMBDA i :
                      /\ name[i] \in Uppercase
                      /\ i = 1 \/ name[i - 1] \in Whitespace)
    IN  [k \in 1..Len(starts) |-> name[starts[k]]]

\* C25, amended: a short name that is given is kept.  Without one, a name
\* that holds "Anti-" gives the first whitespace-delimited token after its
\* last "Anti-", and making the antibody fails with IndexError, storing
\* nothing, when no token follows; any other name that holds a space gives
\* the uppercase first characters of its tokens; any other name gives its
\* first 10 characters.
C25_DerivedShortName ==
    /\ [][ page'.status = "IndexError" => antibodies' = antibodies ]_vars
    /\ [] ( page.kind = "antibodies" =>
              LET name == page.form[1].name
                  given == page.form[1].short_name
                  made == DictGet(antibodies, name).short_name
              IN  IF given # <<>>
                  THEN AntibodyMade /\ made = given
                  ELSE IF Contains(name, ANTI)
                  THEN IF HasTokenAfter(name, LastAnti(name) + 4)
                       THEN /\ AntibodyMade
                            /\ made = FirstTokenAfter(name, LastAnti(name) + 4)
                       ELSE page.status = "IndexError"
                  ELSE IF \E i \in 1..Len(name) : name[i] = " "
                  THEN AntibodyMade /\ made = InitialsOf(name)
                  ELSE AntibodyMade /\ made = PrefixOf(name, 10) )

\* An antibody was made without a short name under a name that holds "Anti-"
\* twice: its short name is the token after the second, not the last token
\* of the name.
C25_Witness ==
    /\ AntibodyMade
    /\ page.form[1].name = N_ANTI_TWICE
    /\ page.form[1].short_name = <<>>
    /\ DictGet(antibodies, N_ANTI_TWICE).short_name = <<"B">>

-----------------------------------------------------------------------------
(* The claims about the sample IDs and the inputs of the plan, under       *)
(* PlanSpec.                                                               *)

\* C26: within one plan the sample IDs are unique: two rows have different
\* sample IDs, whenever the names of the groups are pairwise distinct (the
\* names of the tubes, keys of the tube map, always are).
C26_SampleIdsUnique ==
    ( /\ PlanShown
      /\ \A g, h \in 1..Len(planner.groups) :
             planner.groups[g] = planner.groups[h] => g = h )
    => \A i, j \in 1..Len(page.plan.rows) :
           page.plan.rows[i].sample_id = page.plan.rows[j].sample_id => i = j

\* C27: the plan on the screen is the plan of the last press of the button
\* "generate plan": its groups are the groups stored then and its replicates
\* the replicates stored then, and the total of samples of the overview is
\* the number of its rows.
C27_PlanOfLastGenerate ==
    PlanShown =>
        /\ page.plan.replicates = planner.replicates
        /\ Len(page.plan.rows)
           = Len(planner.groups) * planner.replicates * Len(tubes)
        /\ {page.plan.rows[k].group : k \in 1..Len(page.plan.rows)}
           = {planner.groups[g] : g \in 1..Len(planner.groups)}
        /\ page.plan.total_samples = Len(page.plan.rows)

====
